---- MODULE Spec2Model ----
(***************************************************************************)
(* Model of processor/intracesampler/processor.go: the in-trace sampler.   *)
(*                                                                         *)
(* A batch (ptrace.Traces) is a sequence of resource groupings, each a     *)
(* sequence of scope groupings, each a scope and a sequence of spans.      *)
(* processTraces is one synchronous call; it is modelled as one action     *)
(* that runs the whole handler on the batch `td`.                          *)
(***************************************************************************)
EXTENDS Integers, Sequences, FiniteSets, TLC

(***************************************************************************)
(* Bounds of the model.                                                    *)
(***************************************************************************)
MaxSpans == 3          \* spans of a batch whose k-th span has identity k
MaxMalformedSpans == 2 \* spans of a batch whose spans carry any identity
MaxSpanID == 2         \* the identities such a span may carry are 1..MaxSpanID
MaxBatches == 2        \* batches one processor receives one after the other
MaxTraceID == 2        \* trace identities are 1..MaxTraceID
MaxSeed == 1           \* HashSeed is 0..MaxSeed
MaxPercent == 100      \* SamplingPercentage is a whole number 0..MaxPercent
MaxPlainSpans == 2     \* spans of a batch of the sampling specifications
MaxResources == 2      \* resource groupings of a batch in the removal specification
MaxScopes == 1         \* scope groupings of one resource grouping, likewise
MaxGroupSpans == 2     \* spans of one scope grouping in the removal specification
MaxShapeSpans == 2     \* spans of a batch in the removal specification

(***************************************************************************)
(* Program constants (processor.go:30-35).                                 *)
(***************************************************************************)
numHashBuckets == 16384
bitMaskHashBuckets == numHashBuckets - 1

\* float32(numHashBuckets / 100.0) = 163.8399963378906 = 10737418 / 2^16:
\* percentageScaleFactor is an untyped constant that takes the float32 type of
\* cfg.SamplingPercentage in the product at processor.go:48.
scaleFactorMantissa == 10737418
scaleFactorShift == 65536

(***************************************************************************)
(* Generic helpers.                                                        *)
(***************************************************************************)
SeqsUpTo(S, n) == UNION {[1..k -> S] : k \in 0..n}

RECURSIVE Concat(_)
Concat(ss) == IF ss = <<>> THEN <<>> ELSE Head(ss) \o Concat(Tail(ss))

Range(s) == {s[i] : i \in DOMAIN s}

\* x & y on unsigned 32-bit words, bit by bit.
RECURSIVE BitAnd(_, _)
BitAnd(x, y) ==
    IF x = 0 \/ y = 0 THEN 0
    ELSE (x % 2) * (y % 2) + 2 * BitAnd(x \div 2, y \div 2)

\* number of bits of n > 0
RECURSIVE BitLen(_)
BitLen(n) == IF n = 0 THEN 0 ELSE 1 + BitLen(n \div 2)

RECURSIVE Pow2(_)
Pow2(n) == IF n = 0 THEN 1 ELSE 2 * Pow2(n - 1)

\* Go map write m[k] = v
MapPut(m, k, v) == [x \in (DOMAIN m) \cup {k} |-> IF x = k THEN v ELSE m[x]]

\* Go map read of a slice-valued map: the zero value (nil slice) when absent
MapGetSlice(m, k) == IF k \in DOMAIN m THEN m[k] ELSE <<>>

EmptyMap == [x \in {} |-> 0]
(***************************************************************************)
(* The batch: ptrace.Traces.                                               *)
(*   td            : sequence of ResourceSpans                             *)
(*   ResourceSpans : [resource, scopeSpans]                                *)
(*   ScopeSpans    : [scope |-> [name, ord], spans]                        *)
(*   Span          : [spanID, parentSpanID, traceID]                       *)
(* `resource` and `scope.ord` stand for the content that tells one         *)
(* grouping from another (its attributes): the position the grouping had   *)
(* when the batch was built.                                               *)
(***************************************************************************)
Span(id, parent, trace) == [spanID |-> id, parentSpanID |-> parent, traceID |-> trace]

\* The triple loop over ResourceSpans / ScopeSpans / Spans used by
\* spansToTraceTree and getSingleTraceId, as the sequence of FullSpan values
\* it visits.
ScopeFullSpans(rs, ss) ==
    [k \in 1..Len(ss.spans) |->
        [resource |-> rs.resource, scope |-> ss.scope, span |-> ss.spans[k]]]

ResourceFullSpans(rs) ==
    Concat([j \in 1..Len(rs.scopeSpans) |-> ScopeFullSpans(rs, rs.scopeSpans[j])])

AllSpans(td) == Concat([i \in 1..Len(td) |-> ResourceFullSpans(td[i])])

(***************************************************************************)
(* newInTraceSamplerSpansProcessor: scaledSamplingRate                     *)
(*   uint32(cfg.SamplingPercentage * percentageScaleFactor)                *)
(* a float32 product rounded to nearest-even on 24 bits, then truncated.   *)
(* SamplingPercentage is a whole number here, exact in float32.            *)
(***************************************************************************)
Float32Round(n) ==
    IF BitLen(n) <= 24 THEN n
    ELSE LET s == BitLen(n) - 24
             q == n \div Pow2(s)
             r == n % Pow2(s)
             half == Pow2(s - 1)
             m == IF r > half \/ (r = half /\ q % 2 = 1) THEN q + 1 ELSE q
         IN  m * Pow2(s)

\* (variant: the scale factor computed by integer division)
scaledSamplingRateTruncating(cfg) ==
    cfg.SamplingPercentage * (numHashBuckets \div 100)

scaledSamplingRate(cfg) ==
    Float32Round(cfg.SamplingPercentage * scaleFactorMantissa) \div scaleFactorShift

(***************************************************************************)
(* hash(b []byte, seed uint32) uint32: the seeded hash of the trace        *)
(* identity.  A trace identity is named by a small number t; the value is  *)
(* below 2^31, so no reduction modulo 2^32 is needed.                      *)
(***************************************************************************)
hash(traceID, seed) == (traceID * 7919 + seed * 10473 + 1234) * 4827

(***************************************************************************)
(* spansToTraceTree (processor.go:82-127)                                  *)
(***************************************************************************)
RECURSIVE TreeLoop(_, _, _, _)
TreeLoop(all, k, fullSpans, spanChildren) ==
    IF k > Len(all) THEN [fullSpans |-> fullSpans, children |-> spanChildren]
    ELSE LET fullspan == all[k]
             id == fullspan.span.spanID
             parent == fullspan.span.parentSpanID
         IN  TreeLoop(all, k + 1,
                      MapPut(fullSpans, id, fullspan),
                      MapPut(spanChildren, parent,
                             Append(MapGetSlice(spanChildren, parent), id)))

\* "find roots": one visit per key of fullSpans.  Go leaves the order of a map
\* range unspecified, so roots is kept as the set of the identities appended.
\* (variant: only a span with the zero parent identity is a root)
findRootsZeroParent(fullSpans) ==
    {id \in DOMAIN fullSpans : fullSpans[id].span.parentSpanID = 0}

findRoots(fullSpans) ==
    {id \in DOMAIN fullSpans :
        fullSpans[id].span.parentSpanID \notin DOMAIN fullSpans}

spansToTraceTree(td) ==
    LET t == TreeLoop(AllSpans(td), 1, EmptyMap, EmptyMap)
    IN  [fullSpans |-> t.fullSpans,
         children |-> t.children,
         roots |-> findRoots(t.fullSpans)]

(***************************************************************************)
(* getSingleTraceId (processor.go:133-156).  The *pcommon.TraceID result   *)
(* is <<>> for nil and <<t>> for a pointer to t.                           *)
(***************************************************************************)
RECURSIVE SingleTraceLoop(_, _, _)
SingleTraceLoop(all, k, traceId) ==
    IF k > Len(all) THEN traceId
    ELSE LET currentTraceId == all[k].span.traceID
         IN  IF traceId = <<>>
               THEN SingleTraceLoop(all, k + 1, <<currentTraceId>>)
             ELSE IF currentTraceId # traceId[1]
               THEN <<>>
             ELSE SingleTraceLoop(all, k + 1, traceId)

\* (variant: the first span's trace identity, without comparing the others)
getSingleTraceIdFirst(td) ==
    IF AllSpans(td) = <<>> THEN <<>> ELSE <<AllSpans(td)[1].span.traceID>>

getSingleTraceId(td) == SingleTraceLoop(AllSpans(td), 1, <<>>)
(***************************************************************************)
(* getScopeBranchesToUnsampleRec / getScopeBranchesToUnsample              *)
(* (processor.go:158-183).                                                 *)
(*                                                                         *)
(* The recursion is native Go recursion: a chain of calls that never ends  *)
(* exhausts the goroutine stack and the runtime aborts the process.        *)
(* StackLimit is that limit, scaled to the model: deeper than any chain of *)
(* distinct span identities of a batch, so only a chain that repeats an    *)
(* identity, and therefore never ends, reaches it.                         *)
(* The result carries the bool returned, the unsampledScopes map (as the   *)
(* set of its keys, every value being true), the identities evaluated in   *)
(* call order, and whether the stack was exhausted.                        *)
(***************************************************************************)
StackLimit == MaxSpans + 2

Contains(s, x) == \E i \in DOMAIN s : s[i] = x

RECURSIVE getScopeBranchesToUnsampleRec(_, _, _, _, _, _)
RECURSIVE ChildrenLoop(_, _, _, _, _, _)

\* (variant: currentUnsampled = childUnsampled, the span's own result dropped)
ChildrenLoopLast(cfg, traceTreeData, kids, i, st, depth) ==
    IF i > Len(kids) \/ st.overflow THEN st
    ELSE LET child == getScopeBranchesToUnsampleRec(cfg, traceTreeData, kids[i],
                                                     st.scopes, st.visited, depth + 1)
         IN  ChildrenLoop(cfg, traceTreeData, kids, i + 1,
                          [unsampled |-> child.unsampled,
                           scopes |-> child.scopes,
                           visited |-> child.visited,
                           overflow |-> child.overflow],
                          depth)

ChildrenLoop(cfg, traceTreeData, kids, i, st, depth) ==
    IF i > Len(kids) \/ st.overflow THEN st
    ELSE LET child == getScopeBranchesToUnsampleRec(cfg, traceTreeData, kids[i],
                                                     st.scopes, st.visited, depth + 1)
         IN  ChildrenLoop(cfg, traceTreeData, kids, i + 1,
                          [unsampled |-> st.unsampled /\ child.unsampled,
                           scopes |-> child.scopes,
                           visited |-> child.visited,
                           overflow |-> child.overflow],
                          depth)

\* (variant: the children evaluated, their results not folded into the span's)
getScopeBranchesToUnsampleRecOwnScope(cfg, traceTreeData, currentSpanID, unsampledScopes, visited, depth) ==
    IF depth > StackLimit
      THEN [unsampled |-> FALSE, scopes |-> unsampledScopes,
            visited |-> visited, overflow |-> TRUE]
    ELSE LET currentFullSpan == traceTreeData.fullSpans[currentSpanID]
             currentScopeName == currentFullSpan.scope.name
             currentUnsampled == Contains(cfg.ScopeLeaves, currentScopeName)
             r == ChildrenLoop(cfg, traceTreeData,
                               MapGetSlice(traceTreeData.children, currentSpanID), 1,
                               [unsampled |-> currentUnsampled,
                                scopes |-> unsampledScopes,
                                visited |-> Append(visited, currentSpanID),
                                overflow |-> FALSE],
                               depth)
         IN  IF ~r.overflow /\ currentUnsampled
               THEN [r EXCEPT !.scopes = @ \cup {currentFullSpan.span.spanID},
                              !.unsampled = TRUE]
               ELSE r

\* (variant: only a span without children is unsampled)
getScopeBranchesToUnsampleRecLeafOnly(cfg, traceTreeData, currentSpanID, unsampledScopes, visited, depth) ==
    IF depth > StackLimit
      THEN [unsampled |-> FALSE, scopes |-> unsampledScopes,
            visited |-> visited, overflow |-> TRUE]
    ELSE LET currentFullSpan == traceTreeData.fullSpans[currentSpanID]
             currentScopeName == currentFullSpan.scope.name
             kids == MapGetSlice(traceTreeData.children, currentSpanID)
             r == ChildrenLoop(cfg, traceTreeData, kids, 1,
                               [unsampled |-> Contains(cfg.ScopeLeaves, currentScopeName),
                                scopes |-> unsampledScopes,
                                visited |-> Append(visited, currentSpanID),
                                overflow |-> FALSE],
                               depth)
         IN  IF ~r.overflow /\ kids = <<>> /\ r.unsampled
               THEN [r EXCEPT !.scopes = @ \cup {currentFullSpan.span.spanID}]
               ELSE [r EXCEPT !.unsampled = FALSE]

getScopeBranchesToUnsampleRec(cfg, traceTreeData, currentSpanID, unsampledScopes, visited, depth) ==
    IF depth > StackLimit
      THEN [unsampled |-> FALSE, scopes |-> unsampledScopes,
            visited |-> visited, overflow |-> TRUE]
    ELSE LET currentFullSpan == traceTreeData.fullSpans[currentSpanID]
             currentScopeName == currentFullSpan.scope.name
             r == ChildrenLoop(cfg, traceTreeData,
                               MapGetSlice(traceTreeData.children, currentSpanID), 1,
                               [unsampled |-> Contains(cfg.ScopeLeaves, currentScopeName),
                                scopes |-> unsampledScopes,
                                visited |-> Append(visited, currentSpanID),
                                overflow |-> FALSE],
                               depth)
         IN  IF ~r.overflow /\ r.unsampled
               THEN [r EXCEPT !.scopes = @ \cup {currentFullSpan.span.spanID}]
               ELSE r

RECURSIVE RootsLoop(_, _, _, _)
\* (variant: the loop left after the first root)
RootsLoopFirstOnly(cfg, traceTreeData, todo, st) ==
    IF todo = {} \/ st.overflow THEN st
    ELSE LET rootSpanID == CHOOSE id \in todo : TRUE
         IN  getScopeBranchesToUnsampleRec(cfg, traceTreeData, rootSpanID,
                                           st.scopes, st.visited, 1)

RootsLoop(cfg, traceTreeData, todo, st) ==
    IF todo = {} \/ st.overflow THEN st
    ELSE LET rootSpanID == CHOOSE id \in todo : TRUE
             r == getScopeBranchesToUnsampleRec(cfg, traceTreeData, rootSpanID,
                                                st.scopes, st.visited, 1)
         IN  RootsLoop(cfg, traceTreeData, todo \ {rootSpanID}, r)

getScopeBranchesToUnsample(cfg, traceTreeData) ==
    RootsLoop(cfg, traceTreeData, traceTreeData.roots,
              [unsampled |-> FALSE, scopes |-> {}, visited |-> <<>>, overflow |-> FALSE])

(***************************************************************************)
(* removeSpansByIds (processor.go:185-196): three nested RemoveIf.          *)
(***************************************************************************)
\* (variant: the predicate inverted)
RemoveIfSpansInverted(spans, idsToRemove) ==
    SelectSeq(spans, LAMBDA span : span.spanID \in idsToRemove)

RemoveIfSpans(spans, idsToRemove) ==
    SelectSeq(spans, LAMBDA span : span.spanID \notin idsToRemove)

RemoveIfScopeSpans(scopeSpans, idsToRemove) ==
    SelectSeq([j \in 1..Len(scopeSpans) |->
                  [scopeSpans[j] EXCEPT !.spans = RemoveIfSpans(@, idsToRemove)]],
              LAMBDA ss : ~(Len(ss.spans) = 0))

\* (variant: a resource grouping left without scope groupings is kept)
removeSpansByIdsKeepResources(td, idsToRemove) ==
    [i \in 1..Len(td) |->
        [td[i] EXCEPT !.scopeSpans = RemoveIfScopeSpans(@, idsToRemove)]]

removeSpansByIds(td, idsToRemove) ==
    SelectSeq([i \in 1..Len(td) |->
                  [td[i] EXCEPT !.scopeSpans = RemoveIfScopeSpans(@, idsToRemove)]],
              LAMBDA rs : ~(Len(rs.scopeSpans) = 0))

(***************************************************************************)
(* State.                                                                  *)
(*   its               the processor: config and scaledSamplingRate        *)
(*   td                the batch, changed in place by removeSpansByIds     *)
(*   phase             "received": processTraces is about to run on td     *)
(*                     "returned": it returned (td, err)                   *)
(*                     "crashed" : the runtime aborted on stack exhaustion *)
(*                     "remove"/"removed": removeSpansByIds called alone   *)
(*   traceTreeData     <<>> until spansToTraceTree ran in this call        *)
(*   unsampledSpanIds  <<>> until getScopeBranchesToUnsample returned      *)
(*   visited           identities evaluated by the pruning evaluator       *)
(*   logs              events given to the logger by this call             *)
(*   err               the error returned                                  *)
(* History, for stating properties:                                        *)
(*   received          the batch as it was when the call began             *)
(*   fedBack           "no", or what the call before did to this batch     *)
(*                     when the batch is one a call returned: "pruned" or  *)
(*                     "unchanged"                                         *)
(*   batches           batches received by the processor so far            *)
(*   decisions         per trace identity, the decisions taken, each with  *)
(*                     the number of the batch it was taken for            *)
(***************************************************************************)
VARIABLES its, td, phase, traceTreeData, unsampledSpanIds, visited, logs, err,
          received, fedBack, batches, decisions

vars == <<its, td, phase, traceTreeData, unsampledSpanIds, visited, logs, err,
          received, fedBack, batches, decisions>>

WarnDifferentTraces == [level |-> "warn", msg |-> "received spans from different traces"]
DebugUnsampling(n) == [level |-> "debug", msg |-> "unsampling spans in a trace", num |-> n]

\* its := &inTraceSamplerProcessor{...} (processor.go:45-49)
newInTraceSamplerSpansProcessor(cfg) ==
    [config |-> cfg, scaledSamplingRate |-> scaledSamplingRate(cfg)]

(***************************************************************************)
(* The sampling decision (processor.go:208).                               *)
(***************************************************************************)
\* (variant: the hash compared without the bucket mask)
sampledUnmasked(proc, singleTraceId) ==
    hash(singleTraceId, proc.config.HashSeed) < proc.scaledSamplingRate

\* (variant: the seed advanced by the processor for every batch)
sampledReseeded(proc, singleTraceId) ==
    BitAnd(hash(singleTraceId, proc.config.HashSeed + batches), bitMaskHashBuckets)
        < proc.scaledSamplingRate

sampled(proc, singleTraceId) ==
    BitAnd(hash(singleTraceId, proc.config.HashSeed), bitMaskHashBuckets)
        < proc.scaledSamplingRate
(***************************************************************************)
(* processTraces (processor.go:198-223): the whole call.                   *)
(***************************************************************************)
processTraces ==
    /\ phase = "received"
    /\ LET singleTraceId == getSingleTraceId(td)
       IN  IF singleTraceId = <<>>
             THEN /\ logs' = Append(logs, WarnDifferentTraces)
                  /\ phase' = "returned"
                  /\ UNCHANGED <<td, traceTreeData, unsampledSpanIds, visited, decisions>>
           ELSE IF sampled(its, singleTraceId[1])
             THEN /\ phase' = "returned"
                  /\ decisions' = [decisions EXCEPT ![singleTraceId[1]] = @ \cup {<<batches, TRUE>>}]
                  /\ UNCHANGED <<td, traceTreeData, unsampledSpanIds, visited, logs>>
           ELSE LET tree == spansToTraceTree(td)
                    ev == getScopeBranchesToUnsample(its.config, tree)
                IN  /\ decisions' = [decisions EXCEPT ![singleTraceId[1]] = @ \cup {<<batches, FALSE>>}]
                    /\ traceTreeData' = <<tree>>
                    /\ visited' = ev.visited
                    /\ IF ev.overflow
                         THEN /\ phase' = "crashed"
                              /\ UNCHANGED <<td, unsampledSpanIds, logs>>
                       ELSE IF Cardinality(ev.scopes) = 0
                         THEN /\ phase' = "returned"
                              /\ unsampledSpanIds' = <<ev.scopes>>
                              /\ UNCHANGED <<td, logs>>
                       ELSE /\ phase' = "returned"
                            /\ unsampledSpanIds' = <<ev.scopes>>
                            /\ logs' = Append(logs, DebugUnsampling(Cardinality(ev.scopes)))
                            /\ td' = removeSpansByIds(td, ev.scopes)
    /\ err' = "nil"
    /\ UNCHANGED <<its, received, fedBack, batches>>

\* The pipeline hands the batch a call returned to the same processor again.
Resubmit ==
    /\ phase = "returned"
    /\ phase' = "received"
    /\ received' = td
    /\ fedBack' = IF td = received THEN "unchanged" ELSE "pruned"
    /\ traceTreeData' = <<>>
    /\ unsampledSpanIds' = <<>>
    /\ visited' = <<>>
    /\ logs' = <<>>
    /\ err' = "none"
    /\ UNCHANGED <<its, td, batches, decisions>>

\* removeSpansByIds called on a batch with a given set of identities.
RemoveSpans ==
    /\ phase = "remove"
    /\ td' = removeSpansByIds(td, unsampledSpanIds[1])
    /\ phase' = "removed"
    /\ UNCHANGED <<its, traceTreeData, unsampledSpanIds, visited, logs, err,
                   received, fedBack, batches, decisions>>

(***************************************************************************)
(* Inputs.                                                                 *)
(***************************************************************************)
SpanIDs == 1..MaxSpanID
TraceIDs == 1..MaxTraceID
ScopeNames == {"A", "B"}
Cuts == {"span", "scope", "resource"}

Config(pct, seed, leaves) ==
    [SamplingPercentage |-> pct, HashSeed |-> seed, ScopeLeaves |-> leaves]

Min(a, b) == IF a < b THEN a ELSE b

NumSpans(b) == Len(AllSpans(b))

\* Groupings of a flat list of spans.  items[k] is a span and how it is
\* attached: "span" = to the scope grouping of the span before it, "scope" =
\* to a new scope grouping, of the given name, of the same resource grouping,
\* "resource" = to a new scope grouping of a new resource grouping.
RECURSIVE Group(_, _, _)
Group(items, k, acc) ==
    IF k > Len(items) THEN acc
    ELSE LET it == items[k]
             n == Len(acc)
             newScope(ord) == [scope |-> [name |-> it.name, ord |-> ord],
                               spans |-> <<it.span>>]
         IN  IF it.cut = "resource"
               THEN Group(items, k + 1,
                          Append(acc, [resource |-> n + 1, scopeSpans |-> <<newScope(1)>>]))
             ELSE IF it.cut = "scope"
               THEN Group(items, k + 1,
                          [acc EXCEPT ![n].scopeSpans =
                              Append(@, newScope(Len(@) + 1))])
             ELSE Group(items, k + 1,
                        [acc EXCEPT ![n].scopeSpans[Len(acc[n].scopeSpans)].spans =
                            Append(@, it.span)])

FirstItems(spans, names) == [span : spans, cut : {"resource"}, name : names]

LaterItems(spans, names, cuts) ==
    [span : spans, cut : cuts \ {"span"}, name : names]
    \cup [span : spans, cut : cuts \cap {"span"}, name : {"="}]

Renumber(items) ==
    [k \in DOMAIN items |-> [items[k] EXCEPT !.span.spanID = k]]

\* Spans of one trace with any parent identity: absent, the span itself, a
\* span before or after it, or outside the batch.  The k-th span of a batch
\* of these gets the identity k.
TreeSpans == {Span(0, parent, 1) : parent \in 0..MaxSpans}

\* Spans of one trace with any identity, so that two may carry the same.
MalformedSpans == {Span(id, parent, 1) : id \in SpanIDs, parent \in 0..MaxSpanID}

\* Spans without parent and of any trace identity; the k-th gets identity k.
PlainSpans == {Span(0, 0, t) : t \in TraceIDs}

\* The batches with a grouping that holds nothing.
EmptyGroupBatches ==
    { <<[resource |-> 1, scopeSpans |-> <<>>]>>,
      <<[resource |-> 1, scopeSpans |-> <<[scope |-> [name |-> "A", ord |-> 1], spans |-> <<>>]>>]>> }

\* The batches of plain spans that share one scope grouping.
SequenceBatches ==
    {<<>>} \cup EmptyGroupBatches \cup
    UNION {{Group(Renumber(<<first>> \o rest), 1, <<>>) :
               first \in FirstItems(PlainSpans, {"A"}),
               rest \in [1..(n - 1) -> LaterItems(PlainSpans, {"A"}, {"span"})]} :
              n \in 1..MaxPlainSpans}

\* Every nesting of groupings, empty ones included, over spans told apart by
\* their identity alone.
IdSpans == {Span(id, 0, 1) : id \in SpanIDs}

ShapeScopes(budget) ==
    {[scope |-> [name |-> "A", ord |-> 0], spans |-> sp] :
        sp \in SeqsUpTo(IdSpans, Min(MaxGroupSpans, budget))}

\* for every number of spans up to MaxShapeSpans, the sequences of at most
\* `len` scope groupings that hold at most that many spans
RECURSIVE ShapeScopeSeqs(_)
ShapeScopeSeqs(len) ==
    IF len = 0 THEN [budget \in 0..MaxShapeSpans |-> {<<>>}]
    ELSE LET shorter == ShapeScopeSeqs(len - 1)
         IN  [budget \in 0..MaxShapeSpans |->
                 {<<>>} \cup
                 UNION {{<<g>> \o rest : rest \in shorter[budget - Len(g.spans)]} :
                           g \in ShapeScopes(budget)}]

ShapeResources ==
    LET scopeSeqs == ShapeScopeSeqs(MaxScopes)
    IN  [budget \in 0..MaxShapeSpans |->
            {[resource |-> 0, scopeSpans |-> g] : g \in scopeSeqs[budget]}]

RECURSIVE ShapeResourceSeqs(_)
ShapeResourceSeqs(len) ==
    IF len = 0 THEN [budget \in 0..MaxShapeSpans |-> {<<>>}]
    ELSE LET shorter == ShapeResourceSeqs(len - 1)
         IN  [budget \in 0..MaxShapeSpans |->
                 {<<>>} \cup
                 UNION {{<<rs>> \o rest : rest \in shorter[budget - NumSpans(<<rs>>)]} :
                           rs \in ShapeResources[budget]}]

Relabel(b) ==
    [i \in 1..Len(b) |->
        [resource |-> i,
         scopeSpans |-> [j \in 1..Len(b[i].scopeSpans) |->
                            [b[i].scopeSpans[j] EXCEPT !.scope.ord = j]]]]

ShapeBatches == {Relabel(b) : b \in ShapeResourceSeqs(MaxResources)[MaxShapeSpans]}

(***************************************************************************)
(* Specifications.                                                         *)
(***************************************************************************)
InitCall(cfg, b) ==
    /\ its = newInTraceSamplerSpansProcessor(cfg)
    /\ td = b
    /\ received = b
    /\ phase = "received"
    /\ traceTreeData = <<>>
    /\ unsampledSpanIds = <<>>
    /\ visited = <<>>
    /\ logs = <<>>
    /\ err = "none"
    /\ fedBack = "no"
    /\ batches = 1
    /\ decisions = [t \in TraceIDs |-> {}]

\* Spec: one processor, one batch of one trace with any parent structure,
\* processed, and processed again whenever the pipeline feeds it back.  The
\* batches of up to MaxSpans spans of distinct identities are processed with
\* SamplingPercentage 0 and ScopeLeaves = ["A"]; the batches of up to
\* MaxMalformedSpans spans of any identities with every configuration.
TreeConfig == Config(0, 0, <<"A">>)

TreeConfigs == {Config(0, 0, <<>>), TreeConfig, Config(MaxPercent, 0, <<"A">>)}

Init ==
    \/ \E n \in 1..MaxSpans :
          \E first \in FirstItems(TreeSpans, ScopeNames),
             rest \in [1..(n - 1) -> LaterItems(TreeSpans, ScopeNames, {"span", "resource"})] :
             InitCall(TreeConfig, Group(Renumber(<<first>> \o rest), 1, <<>>))
    \/ \E cfg \in TreeConfigs :
          \/ InitCall(cfg, <<>>)
          \/ \E n \in 1..MaxMalformedSpans :
                \E first \in FirstItems(MalformedSpans, ScopeNames),
                   rest \in [1..(n - 1) -> LaterItems(MalformedSpans, ScopeNames, {"scope"})] :
                   InitCall(cfg, Group(<<first>> \o rest, 1, <<>>))

Next == processTraces \/ Resubmit

Spec == Init /\ [][Next]_vars

\* SpecSampling: a processor of any percentage and seed, one batch of any
\* trace identities and grouping.
InitSampling ==
    \E pct \in 0..MaxPercent, seed \in 0..MaxSeed :
        \/ \E b \in {<<>>} \cup EmptyGroupBatches :
              InitCall(Config(pct, seed, <<"A">>), b)
        \/ \E n \in 1..MaxPlainSpans :
              \E first \in FirstItems(PlainSpans, {"A"}),
                 rest \in [1..(n - 1) -> LaterItems(PlainSpans, {"A"}, Cuts)] :
                 InitCall(Config(pct, seed, <<"A">>),
                          Group(Renumber(<<first>> \o rest), 1, <<>>))

NextSampling == processTraces

SpecSampling == InitSampling /\ [][NextSampling]_vars

\* SpecSequence: one processor receiving batches of any trace identities one
\* after the other.
Receive ==
    /\ phase = "returned"
    /\ batches < MaxBatches
    /\ \E b \in SequenceBatches :
          /\ td' = b
          /\ received' = b
    /\ phase' = "received"
    /\ batches' = batches + 1
    /\ fedBack' = "no"
    /\ traceTreeData' = <<>>
    /\ unsampledSpanIds' = <<>>
    /\ visited' = <<>>
    /\ logs' = <<>>
    /\ err' = "none"
    /\ UNCHANGED <<its, decisions>>

SequencePercents == {0, 15, 65, MaxPercent}

InitSequence ==
    \E pct \in SequencePercents, seed \in 0..MaxSeed, b \in SequenceBatches :
        InitCall(Config(pct, seed, <<"A">>), b)

NextSequence == processTraces \/ Receive

SpecSequence == InitSequence /\ [][NextSequence]_vars

\* SpecRemove: removeSpansByIds applied to any batch and any set of identities.
InitRemove ==
    \E b \in ShapeBatches, ids \in SUBSET SpanIDs :
        /\ its = newInTraceSamplerSpansProcessor(Config(0, 0, <<"A">>))
        /\ td = b
        /\ received = b
        /\ phase = "remove"
        /\ traceTreeData = <<>>
        /\ unsampledSpanIds = <<ids>>
        /\ visited = <<>>
        /\ logs = <<>>
        /\ err = "none"
        /\ fedBack = "no"
        /\ batches = 1
        /\ decisions = [t \in TraceIDs |-> {}]

NextRemove == RemoveSpans

SpecRemove == InitRemove /\ [][NextRemove]_vars

(***************************************************************************)
(* Vocabulary of the properties, read off the batch itself.                *)
(***************************************************************************)
SpanIDsOf(b) == {fs.span.spanID : fs \in Range(AllSpans(b))}
TraceIDsOf(b) == {fs.span.traceID : fs \in Range(AllSpans(b))}

UniqueSpanIDs(b) ==
    \A i, j \in DOMAIN AllSpans(b) :
        i # j => AllSpans(b)[i].span.spanID # AllSpans(b)[j].span.spanID

\* identities of the spans of b whose parent identity is in `ps`
ChildIDs(b, ps) ==
    {fs.span.spanID : fs \in {x \in Range(AllSpans(b)) : x.span.parentSpanID \in ps}}

RECURSIVE Reach(_, _, _)
Reach(b, acc, n) ==
    IF n = 0 THEN acc ELSE Reach(b, acc \cup ChildIDs(b, acc), n - 1)

\* the descendants of `id` in b: children, their children, and so on
Descendants(b, id) == Reach(b, ChildIDs(b, {id}), NumSpans(b))

Acyclic(b) == \A id \in SpanIDsOf(b) : id \notin Descendants(b, id)

ScopeNamesOf(b, id) ==
    {fs.scope.name : fs \in {x \in Range(AllSpans(b)) : x.span.spanID = id}}

LeafNames == Range(its.config.ScopeLeaves)

SubtreePrunable(b, id) ==
    /\ ScopeNamesOf(b, id) \subseteq LeafNames
    /\ \A d \in Descendants(b, id) : ScopeNamesOf(b, d) \subseteq LeafNames

\* the accept rule as the specification words it
Threshold == (its.config.SamplingPercentage * numHashBuckets) \div 100
Accepts(t) == (hash(t, its.config.HashSeed) % numHashBuckets) < Threshold

SingleTrace(b) == Cardinality(TraceIDsOf(b)) = 1
TheTrace(b) == CHOOSE t \in TraceIDsOf(b) : TRUE

PruningPath(b) == SingleTrace(b) /\ ~Accepts(TheTrace(b))

Finished == phase \in {"returned", "crashed"}

(***************************************************************************)
(* C1: for a single-trace batch with unique span identities and an acyclic *)
(* parent/child structure that is not wholly accepted, processTraces       *)
(* returns, and it has removed a span if and only if the span's scope name *)
(* and the scope name of every descendant are in ScopeLeaves; the spans    *)
(* kept are exactly the others, in their order.                            *)
(***************************************************************************)
C1_RemovedIffSubtreePrunable ==
    (Finished /\ PruningPath(received) /\ UniqueSpanIDs(received) /\ Acyclic(received))
    => /\ phase = "returned"
       /\ \A id \in SpanIDsOf(received) :
             (id \notin SpanIDsOf(td)) <=> SubtreePrunable(received, id)
       /\ AllSpans(td) =
             SelectSeq(AllSpans(received),
                       LAMBDA fs : ~SubtreePrunable(received, fs.span.spanID))

\* a chain of three: the leaf is removed, its parent and grandparent carry a
\* prunable scope but are kept because of another, unprunable descendant
C1_Witness ==
    /\ phase = "returned" /\ fedBack = "no"
    /\ PruningPath(received) /\ UniqueSpanIDs(received) /\ Acyclic(received)
    /\ NumSpans(received) = 3 /\ NumSpans(td) = 2
    /\ \E id \in SpanIDsOf(td) :
          /\ ScopeNamesOf(received, id) \subseteq LeafNames
          /\ Descendants(received, id) # {}

(***************************************************************************)
(* C2: processTraces terminates on every batch: the evaluation started     *)
(* from the roots never recurses without bound, whatever the batch.        *)
(***************************************************************************)
C2_AlwaysTerminates == phase # "crashed"
\* the batch that makes it fail: two spans of one identity, the first its own
\* parent, the second a root
C2_Reached ==
    /\ phase = "crashed"
    /\ ~UniqueSpanIDs(received)

(***************************************************************************)
(* C3: a batch whose spans carry two or more trace identities, or that has *)
(* no span, is returned as received, with no error and with the warning,   *)
(* and getSingleTraceId yields an identity only for a batch that has spans *)
(* which all carry that identity.                                          *)
(***************************************************************************)
C3_HeterogeneousPassesThrough ==
    /\ (Finished /\ ~SingleTrace(received))
       => /\ phase = "returned"
          /\ td = received
          /\ err = "nil"
          /\ logs = <<WarnDifferentTraces>>
    /\ (getSingleTraceId(received) # <<>>)
       => /\ NumSpans(received) > 0
          /\ TraceIDsOf(received) = {getSingleTraceId(received)[1]}

C3_Witness ==
    /\ phase = "returned"
    /\ Cardinality(TraceIDsOf(received)) = 2
    /\ td = received
    /\ logs = <<WarnDifferentTraces>>

(***************************************************************************)
(* C4: the threshold is floor(SamplingPercentage * 16384 / 100), and a     *)
(* single-trace batch is wholly accepted if and only if                    *)
(* hash(traceID, seed) & 16383 is below it; so none is accepted at 0 and   *)
(* every one at 100.                                                       *)
(***************************************************************************)
WhollyAccepted == phase = "returned" /\ SingleTrace(received) /\ traceTreeData = <<>>

C4_AcceptIffBelowThreshold ==
    /\ numHashBuckets = 16384
    /\ its.scaledSamplingRate = Threshold
    /\ (Finished /\ SingleTrace(received))
       => /\ WhollyAccepted <=> Accepts(TheTrace(received))
          /\ (its.config.SamplingPercentage = 0) => ~WhollyAccepted
          /\ (its.config.SamplingPercentage = 100) => WhollyAccepted

\* a percentage strictly between the bounds under which one trace identity
\* is accepted and the other one is not
C4_Witness ==
    /\ WhollyAccepted
    /\ its.config.SamplingPercentage \notin {0, 100}
    /\ \E t \in TraceIDs : ~Accepts(t)

(***************************************************************************)
(* C5: when the decision accepts the trace the batch is forwarded as       *)
(* received, and the tree builder, the pruning evaluator and the span      *)
(* removal have not run, even though every span's scope is in ScopeLeaves. *)
(***************************************************************************)
C5_AcceptedIsUntouched ==
    (Finished /\ SingleTrace(received) /\ Accepts(TheTrace(received)))
    => /\ phase = "returned"
       /\ td = received
       /\ traceTreeData = <<>>
       /\ unsampledSpanIds = <<>>
       /\ visited = <<>>
       /\ logs = <<>>

C5_Witness ==
    /\ phase = "returned"
    /\ SingleTrace(received) /\ Accepts(TheTrace(received))
    /\ NumSpans(received) = 2
    /\ \A id \in SpanIDsOf(received) : SubtreePrunable(received, id)
    /\ td = received

(***************************************************************************)
(* C6: pruning is idempotent: processing the batch a pruning pass returned *)
(* again, with the same configuration, marks no span and leaves the batch  *)
(* as it was.                                                              *)
(***************************************************************************)
C6_SecondPassRemovesNothing ==
    (Finished /\ fedBack # "no" /\ PruningPath(received))
    => /\ phase = "returned"
       /\ unsampledSpanIds = <<{}>>
       /\ td = received

\* the first pass removed spans and kept others; the second pass ran the
\* evaluator on what was kept
C6_Witness ==
    /\ phase = "returned" /\ fedBack = "pruned"
    /\ unsampledSpanIds = <<{}>>
    /\ NumSpans(td) = 2
    /\ \E id \in SpanIDsOf(td) : ScopeNamesOf(td, id) \subseteq LeafNames
(***************************************************************************)
(* Vocabulary of the removal properties.                                   *)
(***************************************************************************)
IdsToRemove == unsampledSpanIds[1]

\* every span with the labels of the groupings that hold it, in batch order
Placed(b) ==
    [k \in DOMAIN AllSpans(b) |->
        <<AllSpans(b)[k].resource, AllSpans(b)[k].scope.ord, AllSpans(b)[k].span>>]

ResourceLabels(b) == [i \in DOMAIN b |-> b[i].resource]
ScopeLabels(rs) == [j \in DOMAIN rs.scopeSpans |-> rs.scopeSpans[j].scope.ord]
ResourceOf(b, r) == CHOOSE rs \in Range(b) : rs.resource = r

KeptSpans(ss) == SelectSeq(ss.spans, LAMBDA sp : sp.spanID \notin IdsToRemove)

(***************************************************************************)
(* C7: after removeSpansByIds ran with a non-empty set, the batch holds no *)
(* span of the set, no scope grouping without spans and no resource        *)
(* grouping without scope groupings; a resource grouping whose spans were  *)
(* all in the set is gone.                                                 *)
(***************************************************************************)
C7_NoMarkedSpanNoEmptyGrouping ==
    (phase = "removed" /\ IdsToRemove # {})
    => /\ SpanIDsOf(td) \cap IdsToRemove = {}
       /\ \A rs \in Range(td) :
             /\ Len(rs.scopeSpans) > 0
             /\ \A ss \in Range(rs.scopeSpans) : Len(ss.spans) > 0
       /\ \A rs \in Range(received) :
             (\A ss \in Range(rs.scopeSpans) : KeptSpans(ss) = <<>>)
                => rs.resource \notin Range(ResourceLabels(td))

\* one resource grouping lost all its spans and is gone, another one stays
C7_Witness ==
    /\ phase = "removed" /\ IdsToRemove # {}
    /\ Len(received) = 2 /\ Len(td) = 1
    /\ \A rs \in Range(received) : NumSpans(<<rs>>) > 0

(***************************************************************************)
(* C8 as claimed: the batch changes only by the removal of the spans of    *)
(* the set and of the groupings that became empty by it; a grouping from   *)
(* which nothing was removed, also one that was empty when received, stays.*)
(***************************************************************************)
ScopeStaysAsClaimed(ss) == KeptSpans(ss) # <<>> \/ ss.spans = <<>>
ResourceStaysAsClaimed(rs) ==
    \/ \E ss \in Range(rs.scopeSpans) : ScopeStaysAsClaimed(ss)
    \/ rs.scopeSpans = <<>>

SpansKeptInPlace ==
    Placed(td) = SelectSeq(Placed(received), LAMBDA p : p[3].spanID \notin IdsToRemove)

C8_OnlyEmptiedGroupingsRemoved ==
    (phase = "removed")
    => /\ SpansKeptInPlace
       /\ ResourceLabels(td) =
             SelectSeq(ResourceLabels(received),
                       LAMBDA r : ResourceStaysAsClaimed(ResourceOf(received, r)))
       /\ \A rs \in Range(td) :
             ScopeLabels(rs) =
                SelectSeq(ScopeLabels(ResourceOf(received, rs.resource)),
                          LAMBDA o : \E ss \in Range(ResourceOf(received, rs.resource).scopeSpans) :
                                        ss.scope.ord = o /\ ScopeStaysAsClaimed(ss))

(***************************************************************************)
(* C8 amended: the batch changes only by the removal of the spans of the   *)
(* set and of every grouping that holds nothing afterwards, whether it was *)
(* emptied or was empty when received; every span outside the set stays    *)
(* under its resource and scope grouping in its order, and every grouping  *)
(* that still holds a span stays in its place.                             *)
(***************************************************************************)
ScopeStays(ss) == KeptSpans(ss) # <<>>
ResourceStays(rs) == \E ss \in Range(rs.scopeSpans) : ScopeStays(ss)

C8_EveryEmptyGroupingRemoved ==
    (phase = "removed")
    => /\ SpansKeptInPlace
       /\ ResourceLabels(td) =
             SelectSeq(ResourceLabels(received),
                       LAMBDA r : ResourceStays(ResourceOf(received, r)))
       /\ \A rs \in Range(td) :
             ScopeLabels(rs) =
                SelectSeq(ScopeLabels(ResourceOf(received, rs.resource)),
                          LAMBDA o : \E ss \in Range(ResourceOf(received, rs.resource).scopeSpans) :
                                        ss.scope.ord = o /\ ScopeStays(ss))

\* spans were removed from one grouping, and a grouping that was empty when
\* received is gone as well
C8_Witness ==
    /\ phase = "removed"
    /\ NumSpans(td) > 0 /\ NumSpans(td) < NumSpans(received)
    /\ \E rs \in Range(received) :
          /\ rs.scopeSpans = <<>>
          /\ rs.resource \notin Range(ResourceLabels(td))

(***************************************************************************)
(* C9: the decision depends on the trace identity and the configuration    *)
(* alone: all the decisions one processor took for batches of one trace    *)
(* identity are the same, whatever else the batches held and whatever was  *)
(* processed before, and they are the decision of the accept rule.         *)
(***************************************************************************)
C9_SameTraceSameDecision ==
    \A t \in TraceIDs :
        \A d \in decisions[t] : d[2] = Accepts(t)

\* two batches of one trace identity, a different number of spans in each
C9_Witness ==
    /\ phase = "returned" /\ batches = 2
    /\ \E t \in TraceIDs :
          /\ {d[1] : d \in decisions[t]} = {1, 2}
          /\ TraceIDsOf(received) = {t}
          /\ ~Accepts(t)
    /\ NumSpans(received) = 1
    /\ its.config.SamplingPercentage \notin {0, 100}

(***************************************************************************)
(* C10 as claimed: roots is the set of the identities of the spans whose   *)
(* parent identity is not a key of fullSpans, every span whose identity is *)
(* not a root has its parent identity among the keys, and children[p]      *)
(* lists the identities of the spans whose parent identity is p, in batch  *)
(* order.                                                                  *)
(***************************************************************************)
Tree == traceTreeData[1]
Keys == DOMAIN Tree.fullSpans

ChildrenInBatchOrder ==
    LET all == AllSpans(received)
        under(p) == SelectSeq(all, LAMBDA fs : fs.span.parentSpanID = p)
    IN  /\ DOMAIN Tree.children = {fs.span.parentSpanID : fs \in Range(all)}
        /\ \A p \in DOMAIN Tree.children :
              Tree.children[p] = [k \in DOMAIN under(p) |-> under(p)[k].span.spanID]

C10_RootsOfEverySpan ==
    (traceTreeData # <<>>)
    => /\ Keys = SpanIDsOf(received)
       /\ Tree.roots =
             {fs.span.spanID :
                 fs \in {x \in Range(AllSpans(received)) : x.span.parentSpanID \notin Keys}}
       /\ Tree.roots \subseteq Keys
       /\ \A fs \in Range(AllSpans(received)) :
             fs.span.spanID \notin Tree.roots => fs.span.parentSpanID \in Keys
       /\ ChildrenInBatchOrder

(***************************************************************************)
(* C10 amended: fullSpans keeps, for each identity, the last span of the   *)
(* batch that carries it; roots is the set of the identities whose kept    *)
(* span has a parent identity that is not a key, every kept span whose     *)
(* identity is not a root has its parent identity among the keys, and      *)
(* children[p] lists the identities of the spans whose parent identity is  *)
(* p, in batch order.                                                      *)
(***************************************************************************)
LastWith(all, id) ==
    all[CHOOSE k \in DOMAIN all :
           /\ all[k].span.spanID = id
           /\ \A m \in (k + 1)..Len(all) : all[m].span.spanID # id]

C10_RootsOfKeptSpans ==
    (traceTreeData # <<>>)
    => LET all == AllSpans(received)
       IN  /\ Keys = SpanIDsOf(received)
           /\ \A id \in Keys : Tree.fullSpans[id] = LastWith(all, id)
           /\ Tree.roots =
                 {id \in Keys : LastWith(all, id).span.parentSpanID \notin Keys}
           /\ Tree.roots \subseteq Keys
           /\ \A id \in Keys \ Tree.roots : Tree.fullSpans[id].span.parentSpanID \in Keys
           /\ ChildrenInBatchOrder

\* two spans of one identity: the first has no parent in the batch, the
\* last one, which fullSpans keeps, has its parent in the batch
C10_Witness ==
    /\ traceTreeData # <<>>
    /\ ~UniqueSpanIDs(received) /\ NumSpans(received) = 2
    /\ Tree.roots = {}
    /\ 0 \in DOMAIN Tree.children

\* a batch of distinct identities: a root whose parent is outside the batch,
\* a span under it, and a span without parent
C10_WellFormedReached ==
    /\ traceTreeData # <<>>
    /\ UniqueSpanIDs(received) /\ NumSpans(received) = 3
    /\ Cardinality(Tree.roots) = 2
    /\ \E r \in Tree.roots : Tree.fullSpans[r].span.parentSpanID # 0
    /\ 0 \in DOMAIN Tree.children

(***************************************************************************)
(* C11: on a batch with unique span identities and an acyclic parent/child *)
(* structure, the evaluation started from all roots evaluates every span   *)
(* of the batch exactly once: visited, the identities in the order         *)
(* getScopeBranchesToUnsampleRec was called on them, holds every identity  *)
(* of the batch, and none of them twice.                                   *)
(***************************************************************************)
Evaluated == traceTreeData # <<>>

TimesVisited(id) == Cardinality({k \in DOMAIN visited : visited[k] = id})

C11_EverySpanEvaluatedOnce ==
    (Evaluated /\ UniqueSpanIDs(received) /\ Acyclic(received))
    => /\ phase = "returned"
       /\ Range(visited) = SpanIDsOf(received)
       /\ \A id \in SpanIDsOf(received) : TimesVisited(id) = 1

\* two roots, one of them with a span under it: three evaluations
C11_Witness ==
    /\ Evaluated /\ phase = "returned"
    /\ UniqueSpanIDs(received) /\ Acyclic(received)
    /\ NumSpans(received) = 3
    /\ Cardinality(Tree.roots) = 2
    /\ \E r \in Tree.roots : MapGetSlice(Tree.children, r) # <<>>
    /\ Len(visited) = 3

(***************************************************************************)
(* C12: pruning never orphans a retained span.  For every single-trace     *)
(* batch with unique span identities the set of identities to remove is    *)
(* closed under descendants: with a span it holds every span reachable     *)
(* from it through children.  So every span of the returned batch whose    *)
(* parent was in the received batch has that parent in the returned batch. *)
(***************************************************************************)
C12_NoRetainedSpanOrphaned ==
    (Finished /\ SingleTrace(received) /\ UniqueSpanIDs(received))
    => /\ unsampledSpanIds # <<>>
          => \A id \in IdsToRemove : Descendants(received, id) \subseteq IdsToRemove
       /\ \A fs \in Range(AllSpans(td)) :
             fs.span.parentSpanID \in SpanIDsOf(received)
             => fs.span.parentSpanID \in SpanIDsOf(td)

\* a span removed together with the span under it, their parent retained
C12_Witness ==
    /\ phase = "returned" /\ fedBack = "no"
    /\ SingleTrace(received) /\ UniqueSpanIDs(received)
    /\ unsampledSpanIds # <<>>
    /\ \E id \in IdsToRemove :
          /\ Descendants(received, id) # {}
          /\ \E fs \in Range(AllSpans(received)) :
                /\ fs.span.spanID = id
                /\ fs.span.parentSpanID \in SpanIDsOf(td)
    /\ NumSpans(td) = 1

\* a span removed from under a retained span whose own parent is retained
C12_ParentKeptReached ==
    /\ phase = "returned" /\ fedBack = "no"
    /\ SingleTrace(received) /\ UniqueSpanIDs(received)
    /\ unsampledSpanIds # <<>> /\ IdsToRemove # {}
    /\ \E fs \in Range(AllSpans(td)) :
          /\ fs.span.parentSpanID # fs.span.spanID
          /\ fs.span.parentSpanID \in SpanIDsOf(td)
====
